---- MODULE Spec2Model ----
(***************************************************************************)
(* The Tesserae-style text-reuse baselines of biblindex/annotations/       *)
(* baseline.py: the pairwise segment scorer (tesserae_score with its two   *)
(* distance heuristics), the candidate ranker and evaluation loop          *)
(* (tesserae_baseline driven by the __main__ block) and the random control *)
(* arm (random_baseline).                                                  *)
(*                                                                         *)
(* Numbers.  A score is math.log(x) of a positive rational x, or the int 0 *)
(* returned by the gate.  log is strictly increasing and log(1) = 0, so a  *)
(* score is kept as the pair <<num, den>> with x = num/den (the gate's 0   *)
(* is <<1, 1>>); sign and order of scores are sign and order of x against  *)
(* 1 and against each other.  Frequencies are drawn from powers of two, so *)
(* 1/freq and the sums of such terms are exact in binary floating point    *)
(* and the order of the floats is the order of the rationals.              *)
(***************************************************************************)
EXTENDS Integers, Sequences, FiniteSets, TLC

(* ---------------------------------------------------------------- bounds *)

\* longest segment drawn for the scorer
MaxSegLen == 3

\* most query segments (src) handed to tesserae_baseline
MaxQueries == 2

\* most candidate segments (trg) handed to tesserae_baseline
MaxCands == 3

\* the cutoffs evaluated are 1..MaxAt
MaxAt == 3

\* most gold identifiers / background identifiers of random_baseline
MaxTrue == 2

MaxBackground == 2

\* longest segment drawn for a direct call of get_d_max_dist
MaxDistLen == 4

(* ----------------------------------------------------------- input sets *)

Tokens == {"a", "b", "c"}

Segments == UNION {[1..n -> Tokens] : n \in 0..MaxSegLen}

Methods == {"min_freq", "max_dist"}

\* the values a Frequency Map holds (positive counts)
FreqVals == {1, 2, 4}

\* frequency maps: equal counts, pairwise different counts, a map that misses "c"
FreqOnes == [w \in Tokens |-> 1]

FreqDistinct == [w \in Tokens |-> IF w = "a" THEN 1 ELSE IF w = "b" THEN 2 ELSE 4]

FreqPartial == [w \in {"a", "b"} |-> IF w = "a" THEN 2 ELSE 1]

FreqMaps == {FreqOnes, FreqDistinct, FreqPartial}

\* the orders in which iterating a Python set of tokens can yield them
SetOrders == {o \in [1..Cardinality(Tokens) -> Tokens] : {o[i] : i \in DOMAIN o} = Tokens}

(* -------------------------------------------------------------- helpers *)

Abs(x) == IF x < 0 THEN -x ELSE x

Min2(x, y) == IF x < y THEN x ELSE y

SetMax(S) == CHOOSE m \in S : \A x \in S : x <= m

\* set(s)
SetOf(s) == {s[i] : i \in DOMAIN s}

\* s.index(w): the first position holding w
Index(s, w) == CHOOSE i \in DOMAIN s : s[i] = w /\ \A j \in 1..(i - 1) : s[j] # w

\* the elements of the set S in the order iteration yields them
IterOrder(S, order) == SelectSeq(order, LAMBDA w : w \in S)

\* 1/freq as a multiple of 1/Scale, Scale the common multiple of FreqVals
Scale == CHOOSE m \in FreqVals : \A f \in FreqVals : m % f = 0

Weight(f) == Scale \div f

RECURSIVE SumWeights(_, _)
SumWeights(S, freqs) ==
    IF S = {} THEN 0
    ELSE LET w == CHOOSE x \in S : TRUE
         IN  Weight(freqs[w]) + SumWeights(S \ {w}, freqs)

Covers(S, freqs) == S \subseteq DOMAIN freqs

\* the keys looked up when `[... freqs[w] for w in S]` runs over S in iteration
\* order: all of S, or up to and including the first key freqs misses
LookedUp(S, freqs, order) ==
    IF Covers(S, freqs) THEN S
    ELSE LET it == IterOrder(S, order)
             bad == {i \in DOMAIN it : it[i] \notin DOMAIN freqs}
             last == CHOOSE i \in bad : \A j \in bad : i <= j
         IN  {it[i] : i \in 1..last}

(* -------------------------------------------------------- get_d_min_freq *)

\* one step of a stable ascending sort: w goes after every element whose key
\* is not larger
Insert(sorted, w, freqs) ==
    LET before == SelectSeq(sorted, LAMBDA v : freqs[v] <= freqs[w])
        after == SelectSeq(sorted, LAMBDA v : freqs[v] > freqs[w])
    IN  before \o <<w>> \o after

RECURSIVE InsertAll(_, _, _)
InsertAll(sorted, rest, freqs) ==
    IF rest = <<>> THEN sorted
    ELSE InsertAll(Insert(sorted, Head(rest), freqs), Tail(rest), freqs)

\* variant: sorted(..., reverse=True)
SortedByFreqDescending(S, freqs, order) ==
    LET asc == InsertAll(<<>>, IterOrder(S, order), freqs)
    IN  [i \in DOMAIN asc |-> asc[Len(asc) + 1 - i]]

\* sorted(set(s), key=lambda w: freqs[w]): stable, ascending
SortedByFreq(S, freqs, order) == InsertAll(<<>>, IterOrder(S, order), freqs)

\* variant: abs(s.index(a) - s.index(a))
GetDMinFreqSameToken(s, freqs, order) ==
    IF ~Covers(SetOf(s), freqs) THEN <<"KeyError", 0>>
    ELSE LET sorted == SortedByFreq(SetOf(s), freqs, order)
         IN  IF Len(sorted) < 2 THEN <<"ValueError", 0>>
             ELSE <<"ok", Abs(Index(s, sorted[1]) - Index(s, sorted[1]))>>

\* get_d_min_freq(s, freqs): <<"ok", d>>, or the exception raised
GetDMinFreq(s, freqs, order) ==
    IF ~Covers(SetOf(s), freqs) THEN <<"KeyError", 0>>
    ELSE LET sorted == SortedByFreq(SetOf(s), freqs, order)
         IN  IF Len(sorted) < 2 THEN <<"ValueError", 0>>
             ELSE <<"ok", Abs(Index(s, sorted[1]) - Index(s, sorted[2]))>>

(* -------------------------------------------------------- get_d_max_dist *)

\* variant: only pairs of different tokens count (`and s[i] != s[j]`)
GetDMaxDistDifferentTokens(s, matching) ==
    LET pairs == {p \in (DOMAIN s) \X (DOMAIN s) :
                    /\ p[1] < p[2] /\ s[p[1]] \in matching /\ s[p[2]] \in matching
                    /\ s[p[1]] # s[p[2]]}
    IN  SetMax({0} \cup {Abs(p[1] - p[2]) : p \in pairs})

\* get_d_max_dist(s, matching): d starts at 0 and is raised to abs(i - j) for
\* every pair i < j of positions that both hold a matching token
GetDMaxDist(s, matching) ==
    LET pairs == {p \in (DOMAIN s) \X (DOMAIN s) :
                    p[1] < p[2] /\ s[p[1]] \in matching /\ s[p[2]] \in matching}
    IN  SetMax({0} \cup {Abs(p[1] - p[2]) : p \in pairs})

(* -------------------------------------------------------- tesserae_score *)

\* variant: `if len(matching) < 1`
GatedOffByOne(matching) == Cardinality(matching) < 1

\* `if len(matching) < 2: return 0`
Gated(matching) == Cardinality(matching) < 2

\* a call's outcome: kind "ok" with the score log(num/den), or the exception;
\* d_t and d_s are the locals (0 when never assigned), lookups the keys read
\* from the two frequency maps, gated whether the call left at the gate
Outcome(kind, num, den, dt, ds, lk, g) ==
    [kind |-> kind, num |-> num, den |-> den, d_t |-> dt, d_s |-> ds,
     lookups |-> lk, gated |-> g]

\* variant: (d_t + d_s) / (f_t + f_s)
RatioInverted(ft, fs, dt, ds) == <<Scale * (dt + ds), ft + fs>>

\* (f_t + f_s) / (d_t + d_s), f_t and f_s in units of 1/Scale
Ratio(ft, fs, dt, ds) == <<ft + fs, Scale * (dt + ds)>>

TesseraeScore(s1, s2, freqs1, freqs2, method, order) ==
    LET matching == SetOf(s1) \cap SetOf(s2)
        lk1 == {<<1, w>> : w \in LookedUp(matching, freqs1, order)}
        lk2 == {<<2, w>> : w \in LookedUp(matching, freqs2, order)}
    IN
    IF Gated(matching) THEN Outcome("ok", 1, 1, 0, 0, {}, TRUE)
    ELSE IF ~Covers(matching, freqs1) THEN Outcome("KeyError", 0, 0, 0, 0, lk1, FALSE)
    ELSE IF ~Covers(matching, freqs2)
        THEN Outcome("KeyError", 0, 0, 0, 0, lk1 \cup lk2, FALSE)
    ELSE
    LET ft == SumWeights(matching, freqs1)
        fs == SumWeights(matching, freqs2)
        dmin1 == GetDMinFreq(s1, freqs1, order)
        dmin2 == GetDMinFreq(s2, freqs2, order)
        lkd1 == {<<1, w>> : w \in LookedUp(SetOf(s1), freqs1, order)}
        lkd2 == {<<2, w>> : w \in LookedUp(SetOf(s2), freqs2, order)}
        dt == IF method = "min_freq" THEN dmin1[2] ELSE GetDMaxDist(s1, matching)
        ds == IF method = "min_freq" THEN dmin2[2] ELSE GetDMaxDist(s2, matching)
        lk == IF method = "min_freq" THEN lk1 \cup lk2 \cup lkd1 \cup lkd2
              ELSE lk1 \cup lk2
        r == Ratio(ft, fs, dt, ds)
    IN
    IF method = "min_freq" /\ dmin1[1] # "ok"
        THEN Outcome(dmin1[1], 0, 0, 0, 0, lk1 \cup lk2 \cup lkd1, FALSE)
    ELSE IF method = "min_freq" /\ dmin2[1] # "ok"
        THEN Outcome(dmin2[1], 0, 0, dt, 0, lk, FALSE)
    ELSE IF r[2] = 0 THEN Outcome("ZeroDivisionError", 0, 0, dt, ds, lk, FALSE)
    ELSE Outcome("ok", r[1], r[2], dt, ds, lk, FALSE)

\* orders on scores: log(n1/d1) against 0 and against log(n2/d2)
Positive(sc) == sc.num > sc.den

Negative(sc) == sc.num < sc.den

IsZero(sc) == sc.num = sc.den

Less(x, y) == x.num * y.den < y.num * x.den

SameScore(x, y) == x.num * y.den = y.num * x.den

(* ----------------------------------------------------- tesserae_baseline *)

\* the method tesserae_score falls back on when none is passed
DefaultMethod == "min_freq"

\* `tesserae_score(s1, s2, src_freqs, trg_freqs)` of the list comprehension:
\* the ranker's method m is not among the arguments, so the default applies
ScoreCandidate(q, c, f1, f2, m, order) == TesseraeScore(q, c, f1, f2, DefaultMethod, order)

\* tscores of one query against every candidate
RECURSIVE TScores(_, _, _, _, _, _)
TScores(q, cands, f1, f2, m, order) ==
    IF cands = <<>> THEN <<>>
    ELSE <<ScoreCandidate(q, Head(cands), f1, f2, m, order)>>
            \o TScores(q, Tail(cands), f1, f2, m, order)

\* one step of the ascending sort of indices by score: index i goes behind
\* the indices that sort before it.  A stable kernel (the insertion sort used
\* on short arrays) sorts an equal score of a lower index before i; an
\* unstable kernel may place equal scores either way, here the opposite way.
InsertIdx(sorted, i, tscores, stable) ==
    LET Before(j) ==
            \/ Less(tscores[j], tscores[i])
            \/ stable /\ SameScore(tscores[j], tscores[i])
    IN  SelectSeq(sorted, Before) \o <<i>> \o SelectSeq(sorted, LAMBDA j : ~Before(j))

RECURSIVE SortIdxs(_, _, _, _)
SortIdxs(sorted, i, tscores, stable) ==
    IF i > Len(tscores) THEN sorted
    ELSE SortIdxs(InsertIdx(sorted, i, tscores, stable), i + 1, tscores, stable)

\* np.argsort(tscores): the candidate indices by ascending score
ArgSort(tscores, stable) == SortIdxs(<<>>, 1, tscores, stable)

\* variant: the [::-1] left out
ReversedOmitted(seq) == seq

\* seq[::-1]
RECURSIVE Reversed(_)
Reversed(seq) == IF seq = <<>> THEN <<>> ELSE Reversed(Tail(seq)) \o <<Head(seq)>>

\* variant: seq[at:]
DropAt(seq, cut) == SubSeq(seq, Min2(cut, Len(seq)) + 1, Len(seq))

\* seq[:at]
TopAt(seq, cut) == SubSeq(seq, 1, Min2(cut, Len(seq)))

\* variant: `if tscores[idx] >= 0`
KeepNonNegative(idxs, tscores) == SelectSeq(idxs, LAMBDA i : ~Negative(tscores[i]))

\* [idx for idx in idxs if tscores[idx] > 0]
KeepPositive(idxs, tscores) == SelectSeq(idxs, LAMBDA i : Positive(tscores[i]))

\* the indices kept for one query: lines 83 and 85
RankedIdxs(tscores, cut, stable) ==
    KeepPositive(TopAt(Reversed(ArgSort(tscores, stable)), cut), tscores)

\* the Scored Candidates of one query: (index, score, overlap size)
RECURSIVE Entries(_, _, _, _)
Entries(q, cands, tscores, idxs) ==
    IF idxs = <<>> THEN <<>>
    ELSE <<[idx |-> Head(idxs), num |-> tscores[Head(idxs)].num,
            den |-> tscores[Head(idxs)].den,
            overlap |-> Cardinality(SetOf(q) \cap SetOf(cands[Head(idxs)]))]>>
            \o Entries(q, cands, tscores, Tail(idxs))

RECURSIVE SumSeq(_)
SumSeq(seq) == IF seq = <<>> THEN 0 ELSE Head(seq) + SumSeq(Tail(seq))

\* what a call of tesserae_baseline yields: kind "ok" with the recall hits/n
\* and the output list, or the exception that ended it
Result(kind, hits, n, out) == [kind |-> kind, hits |-> hits, n |-> n, output |-> out]

NoResult == Result("none", 0, 0, <<>>)

\* the exception of the first call of tesserae_score that raised, or "ok"
RECURSIVE FirstRaised(_)
FirstRaised(tscores) ==
    IF tscores = <<>> THEN "ok"
    ELSE IF Head(tscores).kind # "ok" THEN Head(tscores).kind
    ELSE FirstRaised(Tail(tscores))

\* the loop `for idx, s1 in enumerate(src)` from query k on, with the lists
\* scores (hits) and output as built so far, and then the return statement
RECURSIVE BaselineLoop(_, _, _, _, _, _, _, _, _, _, _)
BaselineLoop(k, hits, out, queries, cands, f1, f2, cut, m, order, stable) ==
    IF k > Len(queries)
    THEN IF Len(hits) = 0 THEN Result("ZeroDivisionError", 0, 0, <<>>)
         ELSE Result("ok", SumSeq(hits), Len(hits), out)
    ELSE
    LET tscores == TScores(queries[k], cands, f1, f2, m, order)
        raised == FirstRaised(tscores)
        idxs == RankedIdxs(tscores, cut, stable)
        hit == IF k \in {idxs[r] : r \in DOMAIN idxs} THEN 1 ELSE 0
    IN  IF raised # "ok" THEN Result(raised, 0, 0, <<>>)
        ELSE BaselineLoop(k + 1, Append(hits, hit),
                          Append(out, Entries(queries[k], cands, tscores, idxs)),
                          queries, cands, f1, f2, cut, m, order, stable)

TesseraeBaseline(queries, cands, f1, f2, cut, m, order, stable) ==
    BaselineLoop(1, <<>>, <<>>, queries, cands, f1, f2, cut, m, order, stable)

(* ------------------------------------------------------------- __main__ *)

\* `for method in ['max_dist', 'min_freq']`
MethodOrder == <<"max_dist", "min_freq">>

\* the ascending list of cutoffs.  The source evaluates 1, 5, 10, 20, 50 on
\* pools of thousands; on the bounded pools drawn here every cutoff from 1 to
\* MaxAt is evaluated, so that cutoffs below, at and above the pool size occur.
ats == [i \in 1..MaxAt |-> i]

\* the segments the gold queries and the candidate pool are drawn from
QueryPool == {<<"a", "b", "c">>, <<"b", "a">>}

CandPool == {<<"a", "c", "b">>, <<"b", "c">>}

SeqsUpTo(S, n) == UNION {[1..k -> S] : k \in 0..n}

\* the (src_freqs, trg_freqs) of a run: equal counts, on which sorted() falls
\* back on the set's iteration order, or pairwise different counts
RankFreqs == {<<FreqOnes, FreqOnes>>, <<FreqDistinct, FreqDistinct>>}

(* ------------------------------------------------------------ the state *)

VARIABLES
    pc,          \* where the program stands
    s1, s2,      \* tesserae_score: the two segments
    freqs1,      \* tesserae_score: frequency map of s1's side
    freqs2,      \* tesserae_score: frequency map of s2's side
    method,      \* the scoring method of the call / of the row being evaluated
    ret,         \* tesserae_score: the outcome of the call
    src, trg,    \* __main__: the query segments and the candidate pool
    src_freqs,   \* __main__: frequency map of the queries' side
    trg_freqs,   \* __main__: frequency map of the candidates' side
    setOrder,    \* the order in which this process iterates a set of tokens
    stableSort,  \* whether this build's argsort kernel keeps equal keys in order
    mi,          \* __main__: how many methods the outer loop has started
    at,          \* __main__: the cutoff of the last call
    scores,      \* __main__: the recalls of the row being evaluated
    rows,        \* __main__: the rows written to the file
    last,        \* the result of the last call of tesserae_baseline
    true,        \* random_baseline: the gold identifiers
    bg,          \* random_baseline: the background identifiers, then the pool
    n_background,\* random_baseline: how many background identifiers to keep
    correct,     \* random_baseline: the hits counted so far
    doc,         \* random_baseline: how many gold identifiers have been tried
    recall,      \* random_baseline: the value returned, <<correct, len(true)>>
    seg,         \* get_d_max_dist: the segment s
    matchingArg, \* get_d_max_dist: the token set matching
    d            \* get_d_max_dist: the distance returned

scoreVars == <<s1, s2, freqs1, freqs2, ret>>

rankInputs == <<src, trg, src_freqs, trg_freqs, setOrder, stableSort>>

rankVars == <<mi, at, scores, rows, last>>

randomVars == <<true, bg, n_background, correct, doc, recall>>

maxDistVars == <<seg, matchingArg, d>>

vars == <<pc, method, scoreVars, rankInputs, rankVars, randomVars, maxDistVars>>

\* get_d_max_dist's variables while another part of the program runs
MaxDistIdle == seg = <<>> /\ matchingArg = {} /\ d = 0

\* the random baseline's variables while another part of the program runs
RandomIdle ==
    /\ true = <<>> /\ bg = <<>> /\ n_background = 0
    /\ correct = 0 /\ doc = 0 /\ recall = <<0, 0>>

NoOutcome == Outcome("none", 0, 0, 0, 0, {}, FALSE)

(* ------------------------------------- the scorer called on drawn inputs *)

Init ==
    /\ pc = "call"
    /\ s1 \in Segments
    /\ s2 \in Segments
    /\ freqs1 \in FreqMaps
    /\ freqs2 \in FreqMaps
    /\ method \in Methods
    /\ ret = NoOutcome
    /\ src = <<>> /\ trg = <<>>
    /\ src_freqs = FreqOnes /\ trg_freqs = FreqOnes
    /\ setOrder = <<>> /\ stableSort = TRUE
    /\ mi = 0 /\ at = 0 /\ scores = <<>> /\ rows = <<>> /\ last = NoResult
    /\ RandomIdle
    /\ MaxDistIdle

\* one call tesserae_score(s1, s2, freqs1, freqs2, method)
Score ==
    /\ pc = "call"
    /\ \E order \in SetOrders :
          ret' = TesseraeScore(s1, s2, freqs1, freqs2, method, order)
    /\ pc' = "done"
    /\ UNCHANGED <<maxDistVars, s1, s2, freqs1, freqs2, method, rankInputs, rankVars, randomVars>>

Next == Score

Spec == Init /\ [][Next]_vars

(* ------------------------------------------- the evaluation loop's runs *)

InitRank ==
    /\ pc = "outer"
    /\ src \in SeqsUpTo(QueryPool, MaxQueries)
    /\ trg \in SeqsUpTo(CandPool, MaxCands)
    /\ \E p \in RankFreqs : src_freqs = p[1] /\ trg_freqs = p[2]
    /\ setOrder \in SetOrders
    /\ stableSort \in BOOLEAN
    /\ method = "none"
    /\ mi = 0 /\ at = 0 /\ scores = <<>> /\ rows = <<>> /\ last = NoResult
    /\ s1 = <<>> /\ s2 = <<>> /\ freqs1 = FreqOnes /\ freqs2 = FreqOnes
    /\ ret = NoOutcome
    /\ RandomIdle
    /\ MaxDistIdle

\* `for method in [...]: scores = []`
MainBeginRow ==
    /\ pc = "outer"
    /\ mi < Len(MethodOrder)
    /\ mi' = mi + 1
    /\ method' = MethodOrder[mi + 1]
    /\ scores' = <<>>
    /\ pc' = "inner"
    /\ UNCHANGED <<maxDistVars, scoreVars, rankInputs, randomVars, at, rows, last>>

\* `for at in ats: score, _ = tesserae_baseline(...); scores.append(str(score))`
\* (the row keeps the value that str() prints); an exception ends the program
MainCall ==
    /\ pc = "inner"
    /\ Len(scores) < Len(ats)
    /\ \E r \in {TesseraeBaseline(src, trg, src_freqs, trg_freqs, ats[Len(scores) + 1],
                                   method, setOrder, stableSort)} :
           /\ at' = ats[Len(scores) + 1]
           /\ last' = r
           /\ IF r.kind = "ok"
                 THEN scores' = Append(scores, <<r.hits, r.n>>) /\ pc' = "inner"
                 ELSE scores' = scores /\ pc' = "raised"
    /\ UNCHANGED <<maxDistVars, scoreVars, rankInputs, randomVars, method, mi, rows>>

\* `f.write('\t'.join([method] + scores) + '\n')`
MainWriteRow ==
    /\ pc = "inner"
    /\ Len(scores) = Len(ats)
    /\ rows' = Append(rows, <<method, scores>>)
    /\ pc' = "outer"
    /\ UNCHANGED <<maxDistVars, scoreVars, rankInputs, randomVars, method, mi, at, scores, last>>

\* the outer loop is exhausted and the file is closed
MainClose ==
    /\ pc = "outer"
    /\ mi = Len(MethodOrder)
    /\ pc' = "closed"
    /\ UNCHANGED <<maxDistVars, scoreVars, rankInputs, rankVars, randomVars, method>>

NextRank == MainBeginRow \/ MainCall \/ MainWriteRow \/ MainClose

SpecRank == InitRank /\ [][NextRank]_vars

(* ------------------------------------------------------ random_baseline *)

GoldIds(n) == [i \in 1..n |-> <<"gold", i>>]

BackgroundIds(n) == [j \in 1..n |-> <<"bg", j>>]

\* seq rearranged by the permutation p of its positions
Permuted(seq, p) == [i \in DOMAIN seq |-> seq[p[i]]]

\* variant: the `bg += true[:]` left out
RandomPoolWithoutTrue(kept, gold) == kept

\* `bg += true[:]`: the kept background identifiers, then the gold ones
RandomPool(kept, gold) == kept \o gold

\* `true[doc] in bg[np.random.permutation(len(bg))][:at]`
InFirstAt(id, pool, p, cut) ==
    \E i \in 1..Min2(cut, Len(pool)) : Permuted(pool, p)[i] = id

InitRandom ==
    /\ pc = "rb_load"
    /\ \E n \in 0..MaxTrue : true = GoldIds(n)
    /\ bg = BackgroundIds(MaxBackground)
    /\ n_background \in 0..MaxBackground
    /\ at \in 1..MaxAt
    /\ correct = 0 /\ doc = 0 /\ recall = <<0, 0>>
    /\ method = "none"
    /\ s1 = <<>> /\ s2 = <<>> /\ freqs1 = FreqOnes /\ freqs2 = FreqOnes
    /\ ret = NoOutcome
    /\ src = <<>> /\ trg = <<>>
    /\ src_freqs = FreqOnes /\ trg_freqs = FreqOnes
    /\ setOrder = <<>> /\ stableSort = TRUE
    /\ mi = 0 /\ scores = <<>> /\ rows = <<>> /\ last = NoResult
    /\ MaxDistIdle

\* lines 13-23: the gold identifiers are unzipped (which fails on an empty
\* list), the background is shuffled and cut to n_background, the gold
\* identifiers are added to it
RandomLoad ==
    /\ pc = "rb_load"
    /\ IF Len(true) = 0
          THEN pc' = "rb_raised" /\ bg' = bg
          ELSE /\ \E p \in Permutations(DOMAIN bg) :
                     bg' = RandomPool(SubSeq(Permuted(bg, p), 1, Min2(n_background, Len(bg))),
                                      true)
               /\ pc' = "rb_loop"
    /\ UNCHANGED <<maxDistVars, method, scoreVars, rankInputs, rankVars, true, n_background,
                   correct, doc, recall>>

\* lines 25-26: one gold identifier is looked for among the first `at`
\* identifiers of a fresh random permutation of the pool
RandomDoc ==
    /\ pc = "rb_loop"
    /\ doc < Len(true)
    /\ \E p \in Permutations(DOMAIN bg) :
          correct' = correct + (IF InFirstAt(true[doc + 1], bg, p, at) THEN 1 ELSE 0)
    /\ doc' = doc + 1
    /\ UNCHANGED <<maxDistVars, pc, method, scoreVars, rankInputs, rankVars, true, bg, n_background,
                   recall>>

\* line 28: `return correct / len(true)`
RandomReturn ==
    /\ pc = "rb_loop"
    /\ doc = Len(true)
    /\ recall' = <<correct, Len(true)>>
    /\ pc' = "rb_done"
    /\ UNCHANGED <<maxDistVars, method, scoreVars, rankInputs, rankVars, true, bg, n_background,
                   correct, doc>>

NextRandom == RandomLoad \/ RandomDoc \/ RandomReturn

SpecRandom == InitRandom /\ [][NextRandom]_vars

(* --------------------------------- get_d_max_dist called on drawn inputs *)

InitMaxDist ==
    /\ pc = "md_call"
    /\ seg \in UNION {[1..n -> Tokens] : n \in 0..MaxDistLen}
    /\ matchingArg \in SUBSET Tokens
    /\ d = 0
    /\ method = "max_dist"
    /\ s1 = <<>> /\ s2 = <<>> /\ freqs1 = FreqOnes /\ freqs2 = FreqOnes
    /\ ret = NoOutcome
    /\ src = <<>> /\ trg = <<>>
    /\ src_freqs = FreqOnes /\ trg_freqs = FreqOnes
    /\ setOrder = <<>> /\ stableSort = TRUE
    /\ mi = 0 /\ at = 0 /\ scores = <<>> /\ rows = <<>> /\ last = NoResult
    /\ RandomIdle

\* one call get_d_max_dist(seg, matchingArg)
MaxDist ==
    /\ pc = "md_call"
    /\ d' = GetDMaxDist(seg, matchingArg)
    /\ pc' = "md_done"
    /\ UNCHANGED <<method, scoreVars, rankInputs, rankVars, randomVars, seg, matchingArg>>

NextMaxDist == MaxDist

SpecMaxDist == InitMaxDist /\ [][NextMaxDist]_vars

(* ------------------------------------------------ claims on the scorer *)

Matching == SetOf(s1) \cap SetOf(s2)

Returned == pc = "done"

\* C1: when the two segments share fewer than 2 distinct tokens the call
\* returns 0 under either method, and reads no key of either frequency map.
C1_FewSharedTokensScoreZero ==
    (Returned /\ Cardinality(Matching) < 2)
        => (ret.kind = "ok" /\ IsZero(ret) /\ ret.lookups = {})

\* a call sharing exactly the token "c", which freqs1 does not hold, under
\* max_dist: it returned 0
C1_Witness ==
    /\ Returned
    /\ Matching = {"c"}
    /\ method = "max_dist"
    /\ freqs1 = FreqPartial
    /\ Len(s1) > 1
    /\ ret.kind = "ok" /\ IsZero(ret)

\* C6 as stated: every score returned is non-negative.
C6_ScoreNonNegative == (Returned /\ ret.kind = "ok") => ~Negative(ret)

WeightedSum == SumWeights(Matching, freqs1) + SumWeights(Matching, freqs2)

\* C6 amended: the score is 0 when fewer than 2 tokens are shared; otherwise it
\* is log((f_t + f_s) / (d_t + d_s)) with d_t + d_s >= 2, so it is
\* non-negative exactly when f_t + f_s >= d_t + d_s and negative otherwise.
C6_ScoreSignFollowsRatio ==
    (Returned /\ ret.kind = "ok") =>
        IF Cardinality(Matching) < 2 THEN IsZero(ret)
        ELSE /\ ret.d_t >= 1 /\ ret.d_s >= 1
             /\ ~Negative(ret) <=> (WeightedSum >= Scale * (ret.d_t + ret.d_s))
             /\ Negative(ret) <=> (WeightedSum < Scale * (ret.d_t + ret.d_s))

\* a call sharing 2 tokens whose score is negative
C6_Witness ==
    /\ Returned /\ ret.kind = "ok"
    /\ Cardinality(Matching) = 2
    /\ Negative(ret)
    /\ WeightedSum < Scale * (ret.d_t + ret.d_s)

BothCovered == Covers(SetOf(s1), freqs1) /\ Covers(SetOf(s2), freqs2)

\* the distance of one side as the method measures it; a segment with fewer
\* than two distinct tokens has no two tokens apart (0)
SideDistance(s, freqs) ==
    IF method = "max_dist" THEN GetDMaxDist(s, Matching)
    ELSE IF Cardinality(SetOf(s)) < 2 THEN 0
    ELSE SetMax({GetDMinFreq(s, freqs, o)[2] : o \in SetOrders})

ZeroCombinedDistance == SideDistance(s1, freqs1) + SideDistance(s2, freqs2) = 0

\* C8: with frequency maps that cover the segments' tokens, no call ends in a
\* division error (nor in any other exception), and a call whose combined
\* distance is 0 returns 0.
C8_NoDivisionError ==
    (Returned /\ BothCovered) =>
        /\ ret.kind = "ok"
        /\ ZeroCombinedDistance => IsZero(ret)
        /\ ~ret.gated => ret.d_t + ret.d_s > 0

\* a max_dist call sharing one token that stands once in each segment:
\* combined distance 0, score 0
C8_Witness ==
    /\ Returned /\ BothCovered
    /\ method = "max_dist"
    /\ Cardinality(Matching) = 1
    /\ Len(s1) = 2 /\ Len(s2) = 2
    /\ ZeroCombinedDistance
    /\ IsZero(ret)

FirstPosition(s, w) == CHOOSE i \in DOMAIN s : s[i] = w /\ \A j \in DOMAIN s : s[j] = w => i <= j

Rarest(S, freqs) == CHOOSE w \in S : \A v \in S : freqs[w] <= freqs[v]

PairwiseDifferent(S, freqs) == \A v, w \in S : v # w => freqs[v] # freqs[w]

\* distance between the first occurrences of the two rarest distinct tokens
RarestTwoDistance(s, freqs) ==
    LET a == Rarest(SetOf(s), freqs)
        b == Rarest(SetOf(s) \ {a}, freqs)
    IN  Abs(FirstPosition(s, a) - FirstPosition(s, b))

\* C10: for a segment with at least two distinct tokens of pairwise different
\* frequencies, get_d_min_freq is the distance between the first occurrences
\* of its two distinct tokens of smallest frequency.
C10_MinFreqDistance ==
    (Returned /\ method = "min_freq" /\ ret.kind = "ok" /\ ~ret.gated) =>
        /\ PairwiseDifferent(SetOf(s1), freqs1) => ret.d_t = RarestTwoDistance(s1, freqs1)
        /\ PairwiseDifferent(SetOf(s2), freqs2) => ret.d_s = RarestTwoDistance(s2, freqs2)

\* a segment of three distinct tokens that starts with its most frequent one
C10_Witness ==
    /\ Returned /\ method = "min_freq" /\ ret.kind = "ok" /\ ~ret.gated
    /\ freqs1 = FreqDistinct
    /\ s1 = <<"c", "b", "a">>
    /\ ret.d_t = 1
    /\ freqs2 = FreqPartial /\ Len(s2) = 3 /\ ret.d_s = 2

(* ------------------------------------------------ claims on the ranker *)

Called == last.kind # "none"

Ranked == last.kind = "ok"

\* the score line 82 computes for candidate c of query k
CodeScore(k, c) == ScoreCandidate(src[k], trg[c], src_freqs, trg_freqs, method, setOrder)

\* the score of candidate c of query k under the method the ranker was given
MethodScore(k, c) == TesseraeScore(src[k], trg[c], src_freqs, trg_freqs, method, setOrder)

ReturnedIdxs(k) == {last.output[k][r].idx : r \in DOMAIN last.output[k]}

\* C2 as stated: every returned candidate carries the score of the method the
\* ranker was called with.
C2_ScoresUseGivenMethod ==
    Ranked => \A k \in DOMAIN last.output : \A r \in DOMAIN last.output[k] :
                SameScore(last.output[k][r], MethodScore(k, last.output[k][r].idx))

\* C3: each query's list holds at most `at` candidates, each with the score the
\* ranker computed for it, and that score is > 0.
C3_AtMostAtAllPositive ==
    Ranked => \A k \in DOMAIN last.output :
                /\ Len(last.output[k]) <= at
                /\ \A r \in DOMAIN last.output[k] :
                      /\ Positive(last.output[k][r])
                      /\ last.output[k][r].idx \in DOMAIN trg
                      /\ SameScore(last.output[k][r], CodeScore(k, last.output[k][r].idx))

\* a query whose list is filled up to the cutoff 2 while a third candidate
\* stays out, next to a query whose list lost a candidate to the filter
C3_Witness ==
    /\ Ranked /\ at = 2 /\ Len(trg) = 3 /\ Len(src) = 2
    /\ Len(last.output[1]) = 2
    /\ Len(last.output[2]) < 2

RecallLeq(x, y) == x[1] * y[2] <= y[1] * x[2]

\* C5: within a row (one method, one gold set, one pool) the recall does not
\* decrease from a cutoff to a larger one.
C5_RecallMonotoneInAt ==
    /\ \A i, j \in DOMAIN scores : i <= j => RecallLeq(scores[i], scores[j])
    /\ \A w \in DOMAIN rows : \A i, j \in DOMAIN rows[w][2] :
          i <= j => RecallLeq(rows[w][2][i], rows[w][2][j])

\* a written row whose recall rises from cutoff 1 to cutoff 2 and again to 3
C5_Witness ==
    \E w \in DOMAIN rows :
        /\ Len(rows[w][2]) >= 3
        /\ ~RecallLeq(rows[w][2][2], rows[w][2][1])
        /\ ~RecallLeq(rows[w][2][3], rows[w][2][2])

\* C7 as stated: a call with no query segments or with no candidates ends in
\* an error, never in a recall number.
C7_EmptyInputsRejected ==
    (Called /\ (src = <<>> \/ trg = <<>>)) => last.kind # "ok"

(* --------------------------------------- claims on the random baseline *)

\* C9: with n_background = 0 and at >= len(true) the pool is exactly the gold
\* identifiers, every one of them is found whatever permutations are drawn,
\* and the recall returned is 1.
C9_RandomRecallOne ==
    (n_background = 0 /\ at >= Len(true)) =>
        /\ pc = "rb_loop" => (bg = true /\ correct = doc)
        /\ pc = "rb_done" => (recall[1] = recall[2] /\ recall[2] = Len(true) /\ recall[2] > 0)

\* a run over two gold identifiers with cutoff 2 that returned 2/2
C9_Witness ==
    /\ pc = "rb_done"
    /\ n_background = 0
    /\ Len(true) = 2 /\ at = 2
    /\ recall = <<2, 2>>

(* ---------------------------------------- claims on get_d_max_dist *)

\* the positions of seg that hold a token of matchingArg
MatchingPositions == {i \in DOMAIN seg : seg[i] \in matchingArg}

Largest(P) == CHOOSE m \in P : \A x \in P : x <= m

Smallest(P) == CHOOSE m \in P : \A x \in P : m <= x

\* C11: get_d_max_dist returns the largest position holding a matching token
\* minus the smallest such position, and 0 when fewer than two positions hold
\* a matching token.
C11_MaxDistIsSpanOfMatchingPositions ==
    pc = "md_done" =>
        d = IF Cardinality(MatchingPositions) < 2 THEN 0
            ELSE Largest(MatchingPositions) - Smallest(MatchingPositions)

\* matching {a, c} in ['a', 'b', 'c', 'a']: positions 0, 2, 3 and distance 3,
\* spanned by the two occurrences of 'a'
C11_Witness ==
    /\ pc = "md_done"
    /\ seg = <<"a", "b", "c", "a">>
    /\ matchingArg = {"a", "c"}
    /\ d = 3

====
